---- MODULE Spec2Model ----
(***************************************************************************)
(* Model of backend/main.py of the portfolio tracker: the USD->INR rate    *)
(* cache (CurrencyConverter), the price refresh (update_all_prices, run by *)
(* the background loop and by POST /api/refresh-prices), and the valuation *)
(* (calculate_metrics, get_portfolio_stats).                               *)
(*                                                                         *)
(* Numbers.  Python floats are modelled by exact integers (amounts, rates, *)
(* prices, seconds) and exact fractions <<n, d>> (percentages); rounding   *)
(* of floating point is not modelled.  Python's None is the integer -1 and *)
(* a raised exception the integer -2: neither is a value a rate, a price   *)
(* or a time takes in the model.                                           *)
(*                                                                         *)
(* Scheduling.  Every handler is an `async def` run by one asyncio event   *)
(* loop, and the network and database calls in them are blocking calls:    *)
(* a task gives up the loop only where it really suspends (asyncio.sleep   *)
(* in price_update_loop) or when its handler returns.  `running` is the    *)
(* task that holds the loop.  Wall-clock time (`now`) advances at any      *)
(* moment, also in the middle of a handler (a blocking call takes time).   *)
(***************************************************************************)
EXTENDS Integers, Sequences, FiniteSets, TLC

VARIABLES
    now,                \* datetime.utcnow(), in seconds since the process started
    usd_to_inr_rate,    \* CurrencyConverter._usd_to_inr_rate
    last_updated,       \* CurrencyConverter._last_updated (None until a fetch succeeds)
    investments,        \* the investments table: id -> row
    running,            \* the task that holds the event loop, or NoTask
    task,               \* per task: the handler it runs, its position and its locals
    cache_pair,         \* history: the last pair (rate, timestamp) a refresh completed
    last_good,          \* history: the last rate accepted from a source, None if none yet
    evaluation          \* history: the last call of the function under evaluation, or
                        \*   the rows the last background cycle skipped

vars == <<now, usd_to_inr_rate, last_updated, investments, running, task,
          cache_pair, last_good, evaluation>>

-----------------------------------------------------------------------------
(* Bounds of the model *)

MaxTime == 4500
PriceHorizon == 2700
MaxInvestments == 2

\* how far the clock moves in one step
Deltas == {900}

-----------------------------------------------------------------------------
(* Values of the program *)

None == -1
Raise == -2

FALLBACK_RATE == 83
RATE_TTL == 3600
RATE_MIN == 70
RATE_MAX == 100
PRICE_TTL == 900
SLEEP_INTERVAL == 900

\* the rate sources, in the order get_usd_to_inr_rate tries them
sources == <<"_get_rate_from_yahoo", "_get_rate_from_exchange_api", "_get_rate_from_fixer">>

\* what one rate source can answer: nothing, an exception, or a rate
SourceResults == {None, Raise, 70, 71, 99, 100}

Tasks == {"price_update_loop", "request_1", "request_2"}
RequestTasks == Tasks \ {"price_update_loop"}
NoTask == "no_task"

-----------------------------------------------------------------------------
(* CurrencyConverter.get_usd_to_inr_rate, step by step *)

\* mutants of line 61: the price's 15 minutes taken for the hour; >= for >
CacheExpired_PriceTtl(t, ts) == ts = None \/ t - ts > PRICE_TTL
CacheExpired_AtTtl(t, ts) == ts = None \/ t - ts >= RATE_TTL

\* line 61: the cache is refreshed only when it is older than one hour
CacheExpired(t, ts) == ts = None \/ t - ts > RATE_TTL

\* mutants of line 73: no upper bound; the lower bound included
SanityCheck_NoUpperBound(rate) == rate # None /\ rate # 0 /\ rate > RATE_MIN
SanityCheck_Inclusive(rate) == rate # None /\ rate # 0 /\ rate >= RATE_MIN /\ rate < RATE_MAX

\* line 73: the sanity check of a source's answer
SanityCheck(rate) == rate # None /\ rate # 0 /\ rate > RATE_MIN /\ rate < RATE_MAX

\* mutant of the scheduling: handlers run on threads, any of them at any moment
EventLoopTurn_Threads(t) == TRUE

\* the event loop runs one task at a time: task t makes a step only while it
\* holds the loop, and a new task starts only when the loop is free (t = NoTask)
EventLoopTurn(t) == running = t

-----------------------------------------------------------------------------
(* Tasks *)

\* a task that runs no handler
IdleTask ==
    [op |-> "none", pc |-> "idle",
     t_now |-> None,        \* get_usd_to_inr_rate: now (line 60)
     src |-> 0,             \* get_usd_to_inr_rate: index of the source being tried
     rate |-> None,         \* get_usd_to_inr_rate: rate (line 72)
     lookups |-> 0,         \* rate lookups the handler still makes after this one
     results |-> <<>>,      \* history: the answers of the sources called by this lookup
     called |-> <<>>,       \* history: the sources called by this lookup, in order
     rate0 |-> None,        \* history: the cached rate when this lookup began
     ts0 |-> None,          \* history: the cached timestamp when this lookup began
     failures |-> 0,        \* history: the handler's lookups before this one that
                            \*   tried every source in vain, since its last success
     queue |-> <<>>,        \* update_all_prices: the rows still to visit (line 536)
     new_price |-> None,    \* update_all_prices: new_price (line 543)
     row |-> <<>>,          \* create_investment: db_investment before the commit
     wake |-> None,         \* price_update_loop: when asyncio.sleep(900) ends
     price_currency |-> "", \* price_currency (lines 543, 705)
     started |-> None,      \* history: when update_all_prices read the table
     checked |-> {},        \* history: <<id, time>> of each check of line 539 in this run
     before |-> <<>>,       \* history: the table when update_all_prices read it
     failed |-> {},         \* history: ids whose fetch failed in this run
     fetched |-> {}]        \* history: ids whose fetch was attempted in this run

Pc(t) == task[t].pc

\* a handler returns (or suspends): the task gives up the loop
Finish(t, pc, wake) ==
    /\ task' = [task EXCEPT ![t] = [IdleTask EXCEPT !.pc = pc, !.wake = wake]]
    /\ running' = NoTask

-----------------------------------------------------------------------------
(* CurrencyConverter.get_usd_to_inr_rate (lines 55-85) *)

\* lines 60-61: read the clock and decide whether to refresh
rate_check(t) ==
    /\ Pc(t) = "rate_check"
    /\ EventLoopTurn(t)
    /\ task' = [task EXCEPT ![t].t_now = now,
                             ![t].rate0 = usd_to_inr_rate,
                             ![t].ts0 = last_updated,
                             ![t].results = <<>>,
                             ![t].called = <<>>,
                             ![t].src = IF CacheExpired(now, last_updated) THEN 1 ELSE 0,
                             ![t].pc = IF CacheExpired(now, last_updated)
                                       THEN "rate_source" ELSE "rate_return"]
    /\ UNCHANGED <<now, usd_to_inr_rate, last_updated, investments, running,
                   cache_pair, last_good, evaluation>>

\* mutant of lines 70-85: a refresh in which every source failed stamps the
\* cache all the same
AfterAllFailed_Stamp == "rate_stamp"

\* lines 70-85: when the last source has failed the loop of line 70 ends and
\* the lookup goes on to line 85, storing nothing
AfterAllFailed == "rate_return"

\* lines 70-73, 78-80: call the next source; accept its answer, or go on to the
\* next source, or give up after the last one
rate_source(t) ==
    /\ Pc(t) = "rate_source"
    /\ EventLoopTurn(t)
    /\ \E r \in SourceResults :
          task' = [task EXCEPT
                     ![t].results = Append(@, r),
                     ![t].called = Append(@, sources[task[t].src]),
                     ![t].rate = IF r # Raise THEN r ELSE @,
                     ![t].src = IF (r # Raise /\ SanityCheck(r)) \/ @ = Len(sources)
                                THEN @ ELSE @ + 1,
                     ![t].pc = IF r # Raise /\ SanityCheck(r) THEN "rate_store"
                               ELSE IF task[t].src = Len(sources) THEN AfterAllFailed
                               ELSE "rate_source"]
    /\ UNCHANGED <<now, usd_to_inr_rate, last_updated, investments, running,
                   cache_pair, last_good, evaluation>>

\* line 74
rate_store(t) ==
    /\ Pc(t) = "rate_store"
    /\ EventLoopTurn(t)
    /\ usd_to_inr_rate' = task[t].rate
    /\ last_good' = task[t].rate
    /\ task' = [task EXCEPT ![t].pc = "rate_stamp"]
    /\ UNCHANGED <<now, last_updated, investments, running, cache_pair, evaluation>>

\* lines 75-77
rate_stamp(t) ==
    /\ Pc(t) = "rate_stamp"
    /\ EventLoopTurn(t)
    /\ last_updated' = task[t].t_now
    /\ cache_pair' = <<usd_to_inr_rate, task[t].t_now>>
    /\ task' = [task EXCEPT ![t].pc = "rate_return"]
    /\ UNCHANGED <<now, usd_to_inr_rate, investments, running, last_good, evaluation>>

\* line 85: the lookup returns cls._usd_to_inr_rate to the handler, which makes
\* its next lookup or returns its response
rate_return(t) ==
    /\ Pc(t) = "rate_return"
    /\ EventLoopTurn(t)
    /\ IF task[t].lookups > 0
       THEN /\ task' = [task EXCEPT ![t] = [IdleTask EXCEPT
                                              !.op = task[t].op,
                                              !.pc = "rate_check",
                                              !.lookups = task[t].lookups - 1,
                                              !.failures =
                                                  IF task[t].called = <<>>
                                                  THEN task[t].failures
                                                  ELSE IF last_updated = task[t].ts0
                                                  THEN task[t].failures + 1
                                                  ELSE 0]]
            /\ UNCHANGED running
       ELSE Finish(t, "idle", None)
    /\ UNCHANGED <<now, usd_to_inr_rate, last_updated, investments,
                   cache_pair, last_good, evaluation>>

-----------------------------------------------------------------------------
(* PriceFetcher.get_price_in_native_currency (lines 491-520) *)

\* the tickers of the model and str.endswith on them
Tickers == {"AAPL", "TCS.NS", "SENSEX.BO", "BTC-USD"}
EndsWith(ticker, suffix) ==
    \/ suffix = ".NS" /\ ticker = "TCS.NS"
    \/ suffix = ".BO" /\ ticker = "SENSEX.BO"
    \/ suffix = "-USD" /\ ticker = "BTC-USD"

\* str.lower and str.upper on the asset types and currencies of the model
Lower(s) ==
    CASE s \in {"Stock", "stock"} -> "stock"
      [] s \in {"Crypto", "crypto"} -> "crypto"
      [] s \in {"Mutual Fund", "mutual fund"} -> "mutual fund"
      [] OTHER -> s
Upper(s) ==
    CASE s \in {"USD", "usd"} -> "USD"
      [] s \in {"INR", "inr"} -> "INR"
      [] OTHER -> s

\* mutant of lines 502-520: the Indian suffix is tested before the asset type
NativeCurrency_SuffixFirst(asset_type, ticker) ==
    IF EndsWith(ticker, ".NS") \/ EndsWith(ticker, ".BO") THEN "INR"
    ELSE IF Lower(asset_type) \in {"crypto", "stock"} THEN "USD"
    ELSE "INR"

\* lines 502-520: the currency the returned price is quoted in
NativeCurrency(asset_type, ticker) ==
    IF Lower(asset_type) = "crypto" THEN "USD"
    ELSE IF EndsWith(ticker, ".NS") \/ EndsWith(ticker, ".BO") THEN "INR"
    ELSE IF Lower(asset_type) = "stock" THEN "USD"
    ELSE "INR"

\* what get_price_with_fallbacks(...) or 0.0 can be: 0 when every source failed
PriceResults == {0, 120, 125}

\* mutant of line 539: >= for >
IsStale_AtTtl(t, last_price_update) == t - last_price_update >= PRICE_TTL

\* mutant of line 539: the threshold is two sleeps of the background loop
IsStale_TwoSleeps(t, last_price_update) == t - last_price_update > 2 * SLEEP_INTERVAL

\* line 539: a row is refreshed only when its price is older than 15 minutes
IsStale(t, last_price_update) == t - last_price_update > PRICE_TTL

\* mutant of lines 557-558: a failed fetch ends the loop
AfterFailure_Break(queue) == <<>>

\* lines 557-558: a failed fetch is printed and the loop goes on to the next row
AfterFailure(queue) == Tail(queue)

\* mutant of line 548: the fetched price is stored whatever it is
PriceUsable_Always(new_price) == new_price >= 0

\* line 548: a failed fetch (0.0) is not stored
PriceUsable(new_price) == new_price > 0

-----------------------------------------------------------------------------
(* update_all_prices (lines 529-566), run by price_update_loop and refresh_prices *)

Ids == 1 .. MaxInvestments

RECURSIVE Ascending(_)
Ascending(S) ==
    IF S = {} THEN <<>>
    ELSE LET m == CHOOSE x \in S : \A y \in S : x <= y
         IN  <<m>> \o Ascending(S \ {m})

\* lines 538-539 for the row with this id
RowIsStale(id) ==
    id \in DOMAIN investments /\ IsStale(now, investments[id].last_price_update)

\* the rows that the run of t has passed over at line 539, each with the
\* last_price_update it had and the time of the check
Skipped(t) ==
    {<<c[1], task[t].before[c[1]].last_price_update, c[2]>> :
        c \in {x \in task[t].checked : x[1] \notin task[t].fetched}}

\* the history of the background cycles, where it is kept: the rows skipped
\* by the last cycle that ended
CycleHistory(skipped) == [op |-> "price_update_loop", skipped |-> skipped]

\* line 533: db.query(Investment).all()
upd_query(t) ==
    /\ Pc(t) = "upd_query"
    /\ EventLoopTurn(t)
    /\ task' = [task EXCEPT ![t].queue = Ascending(DOMAIN investments),
                             ![t].before = investments,
                             ![t].started = now,
                             ![t].pc = "upd_check"]
    /\ UNCHANGED <<now, usd_to_inr_rate, last_updated, investments, running,
                   cache_pair, last_good, evaluation>>

\* lines 536-539: the next row, skipped unless its price is stale;
\* lines 560-566 after the last row: commit, and the run is over
upd_check(t) ==
    /\ Pc(t) = "upd_check"
    /\ EventLoopTurn(t)
    /\ IF task[t].queue = <<>>
       THEN IF t = "price_update_loop"
            THEN /\ Finish(t, "sleeping", now + SLEEP_INTERVAL)    \* line 578
                 /\ evaluation' = IF evaluation.op = "price_update_loop"
                                  THEN CycleHistory(Skipped(t)) ELSE evaluation
            ELSE /\ Finish(t, "idle", None)                         \* line 849
                 /\ UNCHANGED evaluation
       ELSE /\ task' = [task EXCEPT
                          ![t].checked = @ \cup {<<Head(task[t].queue), now>>},
                          ![t].queue = IF RowIsStale(Head(@)) THEN @ ELSE Tail(@),
                          ![t].pc = IF RowIsStale(Head(task[t].queue))
                                    THEN "upd_fetch" ELSE "upd_check"]
            /\ UNCHANGED <<running, evaluation>>
    /\ UNCHANGED <<now, usd_to_inr_rate, last_updated, investments,
                   cache_pair, last_good>>

\* lines 543-548, 557-558: fetch the price; a failed fetch leaves the row alone
upd_fetch(t) ==
    /\ Pc(t) = "upd_fetch"
    /\ EventLoopTurn(t)
    /\ \E p \in PriceResults :
          task' = [task EXCEPT
                     ![t].new_price = p,
                     ![t].price_currency =
                         NativeCurrency(task[t].before[Head(task[t].queue)].asset_type,
                                        task[t].before[Head(task[t].queue)].ticker),
                     ![t].fetched = @ \cup {Head(task[t].queue)},
                     ![t].failed = IF p = 0 THEN @ \cup {Head(task[t].queue)} ELSE @,
                     ![t].queue = IF PriceUsable(p) THEN @ ELSE AfterFailure(@),
                     ![t].pc = IF PriceUsable(p) THEN "upd_store" ELSE "upd_check"]
    /\ UNCHANGED <<now, usd_to_inr_rate, last_updated, investments, running,
                   cache_pair, last_good, evaluation>>

\* lines 549-554: store the price, its time, and the currency if the row has none
upd_store(t) ==
    /\ Pc(t) = "upd_store"
    /\ EventLoopTurn(t)
    /\ Head(task[t].queue) \in DOMAIN investments
    /\ LET id == Head(task[t].queue)
           inv == investments[id]
       IN  investments' = [investments EXCEPT ![id] =
               [inv EXCEPT !.current_price = task[t].new_price,
                           !.last_price_update = now,
                           !.currency = IF @ = "" THEN NativeCurrency(inv.asset_type, inv.ticker)
                                        ELSE @]]
    /\ task' = [task EXCEPT ![t].queue = Tail(@), ![t].pc = "upd_check"]
    /\ UNCHANGED <<now, usd_to_inr_rate, last_updated, running,
                   cache_pair, last_good, evaluation>>

-----------------------------------------------------------------------------
(* The request handlers *)

\* calculate_metrics (lines 619-627) looks the rate up once, and once more for
\* each of the two conversions of a USD amount (convert_to_inr, lines 163-165)
Conversions(currency) == IF Upper(currency) = "USD" THEN 2 ELSE 0

\* lines 692-702: the currency create_investment stores
CreateCurrency(req) ==
    IF req.currency = "" \/ req.currency = "INR"
    THEN IF EndsWith(req.ticker, ".NS") \/ EndsWith(req.ticker, ".BO") THEN "INR"
         ELSE IF Lower(req.asset_type) = "crypto" THEN "USD"
         ELSE IF Lower(req.asset_type) = "stock" THEN "USD"
         ELSE "INR"
    ELSE req.currency

\* lines 688-708: the handler starts, settles the currency and fetches the price
create_investment(t, req) ==
    /\ Pc(t) = "idle"
    /\ EventLoopTurn(NoTask)
    /\ Cardinality(DOMAIN investments) < MaxInvestments
    /\ \E p \in PriceResults :
          task' = [task EXCEPT ![t] = [IdleTask EXCEPT
                     !.op = "create_investment",
                     !.pc = "create_commit",
                     !.price_currency = NativeCurrency(req.asset_type, req.ticker),
                     !.row = [asset_type |-> req.asset_type,
                              ticker |-> req.ticker,
                              units |-> req.units,
                              avg_buy_price |-> req.avg_buy_price,
                              currency |-> CreateCurrency(req),
                              current_price |-> p,
                              conviction_level |-> req.conviction_level,
                              last_price_update |-> None]]]
    /\ running' = t
    /\ UNCHANGED <<now, usd_to_inr_rate, last_updated, investments,
                   cache_pair, last_good, evaluation>>

\* lines 711-731: the row is stored with last_price_update = utcnow(), and
\* calculate_metrics is called on it
create_commit(t) ==
    /\ Pc(t) = "create_commit"
    /\ EventLoopTurn(t)
    /\ LET id == CHOOSE i \in Ids \ DOMAIN investments :
                     \A j \in Ids \ DOMAIN investments : i <= j
       IN  /\ Ids \ DOMAIN investments # {}
           /\ investments' = [i \in DOMAIN investments \cup {id} |->
                                 IF i = id
                                 THEN [task[t].row EXCEPT !.last_price_update = now]
                                 ELSE investments[i]]
    /\ task' = [task EXCEPT ![t] = [IdleTask EXCEPT
                  !.op = "create_investment",
                  !.pc = "rate_check",
                  !.lookups = Conversions(task[t].row.currency)]]
    /\ UNCHANGED <<now, usd_to_inr_rate, last_updated, running,
                   cache_pair, last_good, evaluation>>

\* lines 755-773: the fields given in the body upd are set on the row as they
\* are, the row is stored, and calculate_metrics is called on it
update_investment(t, id, upd) ==
    /\ Pc(t) = "idle"
    /\ EventLoopTurn(NoTask)
    /\ id \in DOMAIN investments
    /\ LET row == [f \in DOMAIN investments[id] |->
                      IF f \in DOMAIN upd THEN upd[f] ELSE investments[id][f]]
       IN  /\ investments' = [investments EXCEPT ![id] = row]
           /\ task' = [task EXCEPT ![t] = [IdleTask EXCEPT
                         !.op = "update_investment",
                         !.pc = "rate_check",
                         !.lookups = Conversions(row.currency)]]
    /\ running' = t
    /\ UNCHANGED <<now, usd_to_inr_rate, last_updated, cache_pair, last_good, evaluation>>

\* lines 791-799
delete_investment(t) ==
    /\ Pc(t) = "idle"
    /\ EventLoopTurn(NoTask)
    /\ \E id \in DOMAIN investments :
          investments' = [i \in DOMAIN investments \ {id} |-> investments[i]]
    /\ UNCHANGED <<now, usd_to_inr_rate, last_updated, running, task,
                   cache_pair, last_good, evaluation>>

\* USD rows of the table (in upper case, as convert_to_inr compares)
UsdRows == {i \in DOMAIN investments : Upper(investments[i].currency) = "USD"}

\* lines 803-824: get_portfolio_stats looks the rate up once (line 813) and twice
\* per USD row (lines 818, 823)
get_portfolio_stats(t) ==
    /\ Pc(t) = "idle"
    /\ EventLoopTurn(NoTask)
    /\ task' = [task EXCEPT ![t] = [IdleTask EXCEPT
                  !.op = "get_portfolio_stats",
                  !.pc = "rate_check",
                  !.lookups = 2 * Cardinality(UsdRows)]]
    /\ running' = t
    /\ UNCHANGED <<now, usd_to_inr_rate, last_updated, investments,
                   cache_pair, last_good, evaluation>>

\* lines 844-848: POST /api/refresh-prices awaits update_all_prices
refresh_prices(t) ==
    /\ Pc(t) = "idle"
    /\ EventLoopTurn(NoTask)
    /\ task' = [task EXCEPT ![t] = [IdleTask EXCEPT
                  !.op = "refresh_prices", !.pc = "upd_query"]]
    /\ running' = t
    /\ UNCHANGED <<now, usd_to_inr_rate, last_updated, investments,
                   cache_pair, last_good, evaluation>>

\* lines 575-581: the background task starts, or wakes from asyncio.sleep(900),
\* and awaits update_all_prices
price_update_loop ==
    LET t == "price_update_loop"
    IN  /\ Pc(t) \in {"created", "sleeping"}
        /\ Pc(t) = "sleeping" => now >= task[t].wake
        /\ EventLoopTurn(NoTask)
        /\ task' = [task EXCEPT ![t] = [IdleTask EXCEPT
                      !.op = "price_update_loop", !.pc = "upd_query"]]
        /\ running' = t
        /\ UNCHANGED <<now, usd_to_inr_rate, last_updated, investments,
                       cache_pair, last_good, evaluation>>

\* time passes, up to the horizon of the specification
Tick(horizon) ==
    /\ \E d \in Deltas : now + d <= horizon /\ now' = now + d
    /\ UNCHANGED <<usd_to_inr_rate, last_updated, investments, running, task,
                   cache_pair, last_good, evaluation>>

-----------------------------------------------------------------------------
(* The system *)

NoEvaluation == [op |-> "none"]

\* the requests of the model: POST /api/investments bodies, PUT bodies
StockRequest ==
    [asset_type |-> "Stock", ticker |-> "AAPL", units |-> 10, avg_buy_price |-> 100,
     currency |-> "INR", conviction_level |-> "High"]
IndianStockRequest ==
    [asset_type |-> "Stock", ticker |-> "TCS.NS", units |-> 2, avg_buy_price |-> 50000,
     currency |-> "INR", conviction_level |-> "Low"]
CreateRequests == {StockRequest, IndianStockRequest}
PriceRequests == {StockRequest}
UpdateRequests == {[currency |-> "INR"], [currency |-> "USD"]}

\* the process at time 0 with a given table, a given rate cache and a given
\* history
StartWith(table, rate, fetched_at, history) ==
    /\ now = 0
    /\ usd_to_inr_rate = rate
    /\ last_updated = fetched_at
    /\ investments = table
    /\ running = NoTask
    /\ task = [t \in Tasks |->
                 IF t = "price_update_loop"
                 THEN [IdleTask EXCEPT !.op = "price_update_loop", !.pc = "created"]
                 ELSE IdleTask]
    /\ cache_pair = <<rate, fetched_at>>
    /\ last_good = IF fetched_at = None THEN None ELSE rate
    /\ evaluation = history

\* the process at time 0 with a given table and a given rate cache
Start(table, rate, fetched_at) == StartWith(table, rate, fetched_at, NoEvaluation)

\* the state after the module is loaded (lines 52-53), with an empty table
Init == Start(<<>>, FALLBACK_RATE, None)

\* the steps of a rate lookup
RateSteps(t) ==
    \/ rate_check(t)
    \/ rate_source(t)
    \/ rate_store(t)
    \/ rate_stamp(t)
    \/ rate_return(t)

\* the steps of update_all_prices
UpdateSteps(t) ==
    \/ upd_query(t)
    \/ upd_check(t)
    \/ upd_fetch(t)
    \/ upd_store(t)

Next ==
    \/ Tick(MaxTime)
    \/ price_update_loop
    \/ \E t \in RequestTasks :
          \/ \E req \in CreateRequests : create_investment(t, req)
          \/ create_commit(t)
          \/ \E id \in Ids, upd \in UpdateRequests : update_investment(t, id, upd)
          \/ delete_investment(t)
          \/ get_portfolio_stats(t)
          \/ refresh_prices(t)
    \/ \E t \in Tasks : RateSteps(t) \/ UpdateSteps(t)

Spec == Init /\ [][Next]_vars

-----------------------------------------------------------------------------
(* The rate cache on its own: handlers that look the rate up, over a table   *)
(* that does not change.  The price refresh never reads or writes the cache. *)

UsdRow ==
    [asset_type |-> "Stock", ticker |-> "AAPL", units |-> 10, avg_buy_price |-> 100,
     currency |-> "USD", current_price |-> 120, conviction_level |-> "High",
     last_price_update |-> 0]

RateInit == \E table \in {<<>>, <<UsdRow>>} : Start(table, FALLBACK_RATE, None)

RateNext ==
    \/ Tick(MaxTime)
    \/ \E t \in RequestTasks :
          \/ get_portfolio_stats(t)
          \/ RateSteps(t)

RateSpec == RateInit /\ [][RateNext]_vars

-----------------------------------------------------------------------------
(* The price refresh: the background loop and one request task, which creates *)
(* and deletes rows and refreshes prices.  It starts from a rate fetched at    *)
(* time 0 and ends before that rate expires, so the rate lookups of the        *)
(* handlers find the cache fresh.                                              *)

PriceInit == Start(<<>>, 71, 0)

PriceTasks == {"price_update_loop", "request_1"}

PriceNext ==
    \/ Tick(PriceHorizon)
    \/ price_update_loop
    \/ \E req \in PriceRequests : create_investment("request_1", req)
    \/ create_commit("request_1")
    \/ delete_investment("request_1")
    \/ refresh_prices("request_1")
    \/ \E t \in PriceTasks : rate_check(t) \/ rate_return(t) \/ UpdateSteps(t)

PriceSpec == PriceInit /\ [][PriceNext]_vars

\* The same with the history of the background cycles kept, and with the
\* scheduling of the event loop: time passes; a handler that holds the loop
\* runs on, its calls being blocking calls that return; and a task that is
\* ready again and again, as the background task is whenever its sleep is over
\* and no handler holds the loop, is run (the ready queue of asyncio is first
\* in, first out).  Nothing makes requests arrive.
LoopInit == StartWith(<<>>, 71, 0, CycleHistory({}))

LoopFairness ==
    /\ WF_vars(Tick(PriceHorizon))
    /\ SF_vars(price_update_loop)
    /\ \A t \in PriceTasks :
          WF_vars(create_commit(t) \/ rate_check(t) \/ rate_return(t) \/ UpdateSteps(t))

LoopSpec == LoopInit /\ [][PriceNext]_vars /\ LoopFairness

-----------------------------------------------------------------------------
(* The classification on its own: get_price_in_native_currency applied to a   *)
(* row whose asset type and ticker are drawn from bounded sets.               *)

\* a row stored before the currency column existed: its currency is NULL,
\* written "" (`not currency` holds for both)
LegacyRow(asset_type, ticker) ==
    [asset_type |-> asset_type, ticker |-> ticker, units |-> 10, avg_buy_price |-> 100,
     currency |-> "", current_price |-> 120, conviction_level |-> "High",
     last_price_update |-> 0]

AssetTypes == {"Crypto", "crypto", "Stock", "stock", "Mutual Fund", "ETF", "Bond"}

\* what get_price_with_fallbacks can return: None, 0.0 or a price
FetchAnswers == {None, 0, 120, 125}

\* `x or 0.0` (lines 504, 509, 514, 519)
OrZero(x) == IF x = None \/ x = 0 THEN 0 ELSE x

\* get_price_in_native_currency (lines 491-520): the tuple (price, currency),
\* given what get_price_with_fallbacks returns
get_price_in_native_currency(asset_type, ticker, answer) ==
    <<OrZero(answer), NativeCurrency(asset_type, ticker)>>

ClassifyInit ==
    \E asset_type \in AssetTypes, ticker \in Tickers :
        Start(<<LegacyRow(asset_type, ticker)>>, 71, 0)

\* the call of lines 543-546 for the row
evaluate_get_price_in_native_currency ==
    \E id \in DOMAIN investments, answer \in FetchAnswers :
        /\ evaluation' = [op |-> "get_price_in_native_currency", id |-> id,
                          answer |-> answer,
                          result |-> get_price_in_native_currency(
                                         investments[id].asset_type,
                                         investments[id].ticker, answer)]
        /\ UNCHANGED <<now, usd_to_inr_rate, last_updated, investments, running, task,
                       cache_pair, last_good>>

ClassifyNext == evaluate_get_price_in_native_currency

ClassifySpec == ClassifyInit /\ [][ClassifyNext]_vars

-----------------------------------------------------------------------------
(* The price fetch on its own: get_price_with_fallbacks (lines 368-403) as a  *)
(* function of what each price source answers, called as                      *)
(* get_price_in_native_currency calls it.                                     *)

\* the price sources, CoinGecko first and then the list of lines 379-384
PriceSources ==
    <<"get_crypto_price_coingecko", "get_price_yahoo_simple", "get_price_yahoo_search",
      "get_price_yfinance_fallback", "get_price_alpha_vantage">>

\* what source number i can answer: nothing, a price of its own, and for
\* CoinGecko, which catches its exceptions itself (line 363), a number below 0,
\* for the others an exception
PriceAnswers(i) == IF i = 1 THEN {None, 0 - 5, 121} ELSE {None, Raise, 120 + i}

\* line 372: CoinGecko is asked for the asset type crypto and for a -USD ticker
UsesCoinGecko(ticker, asset_type) ==
    Lower(asset_type) = "crypto" \/ EndsWith(ticker, "-USD")

\* line 374: `if crypto_price`
Truthy(x) == x # None /\ x # 0

\* line 391: price is not None and price > 0 (an exception is caught, line 395)
UsablePrice(price) == price # None /\ price # Raise /\ price > 0

\* lines 386-403: the sources from number i on, after those already called
RECURSIVE TrySources(_, _, _)
TrySources(answers, i, called) ==
    IF i > Len(PriceSources) THEN [price |-> 0, called |-> called]
    ELSE IF UsablePrice(answers[i])
         THEN [price |-> answers[i], called |-> Append(called, PriceSources[i])]
         ELSE TrySources(answers, i + 1, Append(called, PriceSources[i]))

\* lines 334-353: CoinGecko is queried only for the tickers of crypto_mapping
\* and returns None for any other
get_crypto_price_coingecko(ticker, answer) ==
    IF ticker = "BTC-USD" THEN answer ELSE None

\* get_price_with_fallbacks(ticker, asset_type): the price returned and the
\* sources called, in order
get_price_with_fallbacks(ticker, asset_type, answers) ==
    IF UsesCoinGecko(ticker, asset_type)
    THEN LET crypto_price == get_crypto_price_coingecko(ticker, answers[1])
         IN  IF Truthy(crypto_price)
             THEN [price |-> crypto_price, called |-> <<PriceSources[1]>>]
             ELSE TrySources(answers, 2, <<PriceSources[1]>>)
    ELSE TrySources(answers, 2, <<>>)

\* lines 502-519: the asset type get_price_in_native_currency passes on
FallbackAssetType(asset_type) == IF Lower(asset_type) = "crypto" THEN "Crypto" ELSE "Stock"

FetchAssetTypes == {"Crypto", "Stock", "Mutual Fund"}

FetchInit ==
    \E asset_type \in FetchAssetTypes, ticker \in Tickers :
        Start(<<LegacyRow(asset_type, ticker)>>, 71, 0)

\* the call of lines 543-546 for the row, down to the price sources
evaluate_get_price_with_fallbacks ==
    \E id \in DOMAIN investments :
    \E a1 \in PriceAnswers(1), a2 \in PriceAnswers(2), a3 \in PriceAnswers(3),
       a4 \in PriceAnswers(4), a5 \in PriceAnswers(5) :
        LET answers == <<get_crypto_price_coingecko(investments[id].ticker, a1),
                         a2, a3, a4, a5>>
            fetched == get_price_with_fallbacks(
                           investments[id].ticker,
                           FallbackAssetType(investments[id].asset_type), answers)
        IN  /\ evaluation' = [op |-> "get_price_with_fallbacks", id |-> id,
                              answers |-> answers,
                              called |-> fetched.called,
                              result |-> get_price_in_native_currency(
                                             investments[id].asset_type,
                                             investments[id].ticker, fetched.price)]
            /\ UNCHANGED <<now, usd_to_inr_rate, last_updated, investments, running,
                           task, cache_pair, last_good>>

FetchNext == evaluate_get_price_with_fallbacks

FetchSpec == FetchInit /\ [][FetchNext]_vars

-----------------------------------------------------------------------------
(* The writes: the migration at start-up (line 873), then one request task    *)
(* that creates and updates rows.  The rate is fresh, as in PriceSpec.        *)

LegacyTables ==
    {<<>>, <<LegacyRow("Stock", "TCS.NS")>>, <<LegacyRow("Crypto", "SENSEX.BO")>>,
     <<LegacyRow("Crypto", "BTC-USD")>>, <<LegacyRow("Mutual Fund", "AAPL")>>}

\* lines 860-865: the currency migrate_existing_data gives a row
MigratedCurrency(inv) ==
    IF EndsWith(inv.ticker, ".NS") \/ EndsWith(inv.ticker, ".BO") THEN "INR"
    ELSE IF Lower(inv.asset_type) = "crypto" THEN "USD"
    ELSE "USD"

\* line 858: the rows whose currency is NULL
Unmigrated == {id \in DOMAIN investments : investments[id].currency = ""}

\* lines 854-869, called at line 873 before the server starts
migrate_existing_data ==
    /\ Unmigrated # {}
    /\ investments' = [id \in DOMAIN investments |->
                          IF id \in Unmigrated
                          THEN [investments[id] EXCEPT !.currency = MigratedCurrency(investments[id])]
                          ELSE investments[id]]
    /\ UNCHANGED <<now, usd_to_inr_rate, last_updated, running, task,
                   cache_pair, last_good, evaluation>>

\* the server takes requests once the module is loaded (line 879)
Serving == Unmigrated = {}

\* POST bodies: the currency left at its default, a currency that contradicts
\* the ticker, a crypto asset with an Indian suffix, and a body with a free-text
\* currency, negative units and a lower-case conviction level
WriteRequests ==
    {StockRequest,
     [asset_type |-> "Stock", ticker |-> "TCS.NS", units |-> 2, avg_buy_price |-> 50000,
      currency |-> "USD", conviction_level |-> "Low"],
     [asset_type |-> "Crypto", ticker |-> "TCS.NS", units |-> 2, avg_buy_price |-> 100,
      currency |-> "INR", conviction_level |-> "Medium"],
     [asset_type |-> "Mutual Fund", ticker |-> "AAPL", units |-> 0 - 5, avg_buy_price |-> 100,
      currency |-> "EUR", conviction_level |-> "high"]}

\* PUT bodies (exclude_unset: only the fields given)
WriteUpdates ==
    {[currency |-> "EUR"], [units |-> 0 - 5, conviction_level |-> "high"]}

WriteInit == \E table \in LegacyTables : Start(table, 71, 0)

WriteNext ==
    \/ migrate_existing_data
    \/ /\ Serving
       /\ \E req \in WriteRequests : create_investment("request_1", req)
    \/ create_commit("request_1")
    \/ /\ Serving
       /\ \E id \in Ids, upd \in WriteUpdates : update_investment("request_1", id, upd)
    \/ rate_check("request_1")
    \/ rate_return("request_1")

WriteSpec == WriteInit /\ [][WriteNext]_vars

-----------------------------------------------------------------------------
(* The valuation: calculate_metrics (lines 615-639) and get_portfolio_stats   *)
(* (lines 803-842) as functions of the rows, the rate cache, the clock and    *)
(* the answers of the rate sources to each lookup they make.                  *)

\* float('nan'), which a Float column and a float field of a request can hold,
\* and the arithmetic of Python floats on it: an operation on a NaN gives NaN,
\* and every comparison with a NaN is False
NaN == 0 - 2000000000
Mul(a, b) == IF a = NaN \/ b = NaN THEN NaN ELSE a * b
Add(a, b) == IF a = NaN \/ b = NaN THEN NaN ELSE a + b
Sub(a, b) == IF a = NaN \/ b = NaN THEN NaN ELSE a - b
Greater(a, b) == a # NaN /\ b # NaN /\ a > b

\* a / b of two Python floats, as the fraction <<n, d>> in lowest terms with
\* d > 0; a division by zero raises ZeroDivisionError
RECURSIVE Gcd(_, _)
Gcd(a, b) == IF b = 0 THEN a ELSE Gcd(b, a % b)
Abs(a) == IF a < 0 THEN 0 - a ELSE a
ZeroDivisionError == <<0, 0>>
Divide(a, b) ==
    IF b = 0 THEN ZeroDivisionError
    ELSE IF a = NaN \/ b = NaN THEN <<NaN, 1>>
    ELSE LET g == Gcd(Abs(a), Abs(b))
             sign == IF b < 0 THEN 0 - 1 ELSE 1
         IN  <<sign * (a \div g), sign * (b \div g)>>
\* the number n as a fraction
Number(n) == <<n, 1>>
\* q * n for a fraction q and a whole number n > 0; an error stays an error
Times(q, n) ==
    IF q = ZeroDivisionError \/ q[1] = NaN THEN q
    ELSE LET g == Gcd(n, q[2]) IN <<q[1] * (n \div g), q[2] \div g>>

\* get_usd_to_inr_rate (lines 55-85) in one step: the cache <<rate, timestamp>>
\* after a lookup at time t to which the sources answer `answers`, in order;
\* the lookup returns the rate of that cache
RECURSIVE FirstAccepted(_, _)
FirstAccepted(answers, i) ==
    IF i > Len(answers) \/ i > Len(sources) THEN 0
    ELSE IF answers[i] # Raise /\ SanityCheck(answers[i]) THEN i
    ELSE FirstAccepted(answers, i + 1)

get_usd_to_inr_rate(cache, t, answers) ==
    IF ~CacheExpired(t, cache[2]) THEN cache
    ELSE LET k == FirstAccepted(answers, 1)
         IN  IF k = 0 THEN cache ELSE <<answers[k], t>>

\* mutant of convert_to_inr: the amount is multiplied by the rate whatever its currency
convert_to_inr_Always(amount, from_currency, cache, t, answers) ==
    LET c == get_usd_to_inr_rate(cache, t, answers)
    IN  [amount |-> amount * c[1], cache |-> c]

\* convert_to_inr (lines 158-168): the amount in INR, and the cache after the
\* lookup that a USD amount needs
convert_to_inr(amount, from_currency, cache, t, answers) ==
    IF Upper(from_currency) = "INR" THEN [amount |-> amount, cache |-> cache]
    ELSE IF Upper(from_currency) = "USD"
         THEN LET c == get_usd_to_inr_rate(cache, t, answers)
              IN  [amount |-> Mul(amount, c[1]), cache |-> c]
         ELSE [amount |-> amount, cache |-> cache]

\* mutant of lines 631 and 831: the guard lets a zero invested value through
ReturnPercent_NoGuard(pnl, invested) ==
    IF invested >= 0 THEN Times(Divide(pnl, invested), 100) ELSE Number(0)

\* lines 631 and 831: pnl / invested * 100 if invested > 0 else 0
ReturnPercent(pnl, invested) ==
    IF Greater(invested, 0) THEN Times(Divide(pnl, invested), 100) ELSE Number(0)

\* calculate_metrics (lines 615-639) on a row: the dictionary it returns, and
\* the cache it leaves; answers[1..3] are the sources' answers to its lookups
calculate_metrics(investment, cache, t, answers) ==
    LET c1 == get_usd_to_inr_rate(cache, t, answers[1])                       \* 619
        total_value_native == Mul(investment.units, investment.current_price)     \* 622
        total_invested_native == Mul(investment.units, investment.avg_buy_price)  \* 623
        value == convert_to_inr(total_value_native, investment.currency,
                                c1, t, answers[2])                             \* 626
        invested == convert_to_inr(total_invested_native, investment.currency,
                                   value.cache, t, answers[3])                 \* 627
        unrealized_pnl_inr == Sub(value.amount, invested.amount)               \* 630
    IN  [total_value_inr |-> value.amount,
         total_invested_inr |-> invested.amount,
         unrealized_pnl_inr |-> unrealized_pnl_inr,
         unrealized_pnl_percent |-> ReturnPercent(unrealized_pnl_inr, invested.amount),
         usd_to_inr_rate |-> IF investment.currency = "USD" THEN c1[1] ELSE None,
         cache |-> invested.cache]

\* the conviction levels get_portfolio_stats counts (line 810)
ConvictionLevels == {"High", "Medium", "Low"}

\* mutant of line 827: a level that is no key of the dict is passed over
KnownTier_Silent(counts, level) == TRUE

\* line 827: conviction_counts[level] raises KeyError unless level is a key
KnownTier(counts, level) == level \in DOMAIN counts

\* mutant of line 827: the first tier is counted whatever the level
Increment_High(counts, level) ==
    [l \in DOMAIN counts |-> IF l = "High" THEN counts[l] + 1 ELSE counts[l]]

\* line 827: conviction_counts[level] += 1
Increment(counts, level) ==
    [l \in DOMAIN counts |-> IF l = level THEN counts[l] + 1 ELSE counts[l]]

\* mutant of lines 815-827: the amounts are added up as they are, unconverted
RECURSIVE StatsLoop_Native(_, _, _, _, _, _)
StatsLoop_Native(table, ids, n, acc, t, answers) ==
    IF ids = <<>> THEN acc
    ELSE LET investment == table[Head(ids)]
         IN  StatsLoop_Native(table, Tail(ids), n + 1,
                 [acc EXCEPT
                    !.total_invested_inr = @ + investment.units * investment.avg_buy_price,
                    !.current_value_inr = @ + investment.units * investment.current_price,
                    !.conviction_counts = Increment(@, investment.conviction_level)],
                 t, answers)

\* the loop of get_portfolio_stats (lines 815-827) over the rows `ids` of the
\* table, from the totals `acc`; row number n of the loop makes lookups
\* 2n and 2n + 1 of the handler
RECURSIVE StatsLoop(_, _, _, _, _, _)
StatsLoop(table, ids, n, acc, t, answers) ==
    IF ids = <<>> \/ acc.error # "" THEN acc
    ELSE LET investment == table[Head(ids)]
             invested == convert_to_inr(Mul(investment.units, investment.avg_buy_price),
                                        investment.currency, acc.cache, t, answers[2 * n])
             current == convert_to_inr(Mul(investment.units, investment.current_price),
                                       investment.currency, invested.cache, t,
                                       answers[2 * n + 1])
         IN  StatsLoop(table, Tail(ids), n + 1,
                 IF KnownTier(acc.conviction_counts, investment.conviction_level)
                 THEN [acc EXCEPT
                         !.total_invested_inr = Add(@, invested.amount),
                         !.current_value_inr = Add(@, current.amount),
                         !.conviction_counts = Increment(@, investment.conviction_level),
                         !.cache = current.cache]
                 ELSE [acc EXCEPT
                         !.total_invested_inr = Add(@, invested.amount),
                         !.current_value_inr = Add(@, current.amount),
                         !.cache = current.cache,
                         !.error = "KeyError"],                     \* line 827
                 t, answers)

\* get_portfolio_stats (lines 803-842) on a table: the PortfolioStats it
\* returns (or the error it ends in), and the cache it leaves
portfolio_stats(table, cache, t, answers) ==
    LET c1 == get_usd_to_inr_rate(cache, t, answers[1])                       \* 813
        sums == StatsLoop(table, Ascending(DOMAIN table), 1,
                    [total_invested_inr |-> 0, current_value_inr |-> 0,
                     conviction_counts |-> [l \in ConvictionLevels |-> 0],
                     cache |-> c1, error |-> ""],
                    t, answers)
        total_unrealized_pnl_inr == Sub(sums.current_value_inr, sums.total_invested_inr)
    IN  [error |-> sums.error,
         total_invested |-> sums.total_invested_inr,
         current_value |-> sums.current_value_inr,
         net_return_percent |-> ReturnPercent(total_unrealized_pnl_inr, sums.total_invested_inr),
         total_unrealized_pnl |-> total_unrealized_pnl_inr,
         high_conviction_count |-> sums.conviction_counts["High"],
         medium_conviction_count |-> sums.conviction_counts["Medium"],
         low_conviction_count |-> sums.conviction_counts["Low"],
         total_holdings |-> Cardinality(DOMAIN table),
         cache |-> sums.cache]

-----------------------------------------------------------------------------
(* The valuation on its own: tables drawn from bounded sets, and handlers     *)
(* that evaluate calculate_metrics on a row (as get_investments does for each *)
(* row, lines 664-666) and get_portfolio_stats on the table.                  *)

\* the rows of the tables: a crypto asset quoted in USD and an Indian stock
\* quoted in INR, each held in USD or in INR (update_investment sets the
\* currency to whatever the request gives)
MetricsRows ==
    {[asset_type |-> a[1], ticker |-> a[2], units |-> u, avg_buy_price |-> b,
      currency |-> c, current_price |-> p, conviction_level |-> "High",
      last_price_update |-> 0] :
        a \in {<<"Crypto", "BTC-USD">>, <<"Stock", "TCS.NS">>},
        u \in {0, 2, 10}, b \in {0, 100, 50000}, c \in {"USD", "INR"},
        p \in {0, 120, 700}}

\* the rows of the tables of two rows
Row(asset_type, ticker, units, avg_buy_price, currency, current_price, conviction_level) ==
    [asset_type |-> asset_type, ticker |-> ticker, units |-> units,
     avg_buy_price |-> avg_buy_price, currency |-> currency,
     current_price |-> current_price, conviction_level |-> conviction_level,
     last_price_update |-> 0]
PortfolioRows ==
    {Row("Crypto", "BTC-USD", 10, 100, "USD", 120, "High"),
     Row("Crypto", "BTC-USD", 2, 50000, "INR", 700, "Medium"),
     Row("Stock", "TCS.NS", 0, 100, "INR", 120, "Low"),
     Row("Crypto", "BTC-USD", 10, 0, "USD", 120, "Low"),
     Row("Stock", "TCS.NS", 2, 100, "INR", 120, "high")}

\* five holdings tagged High, High, Medium, Low, Low
TieredTable ==
    <<Row("Stock", "TCS.NS", 2, 100, "INR", 120, "High"),
      Row("Stock", "TCS.NS", 2, 100, "INR", 120, "High"),
      Row("Stock", "TCS.NS", 2, 100, "INR", 120, "Medium"),
      Row("Stock", "TCS.NS", 2, 100, "INR", 120, "Low"),
      Row("Stock", "TCS.NS", 2, 100, "INR", 120, "Low")>>

MetricsTables ==
    {<<>>} \cup {<<r>> : r \in MetricsRows}
           \cup {<<r1, r2>> : r1 \in PortfolioRows, r2 \in PortfolioRows}
           \cup {TieredTable}

\* what the three sources answer to one lookup: all fail (no answer, an
\* exception, a rate out of range); or Yahoo answers the lower bound itself and
\* the next source is accepted
NoAnswer == <<None, Raise, 100>>
LookupAnswers == {NoAnswer, <<70, 99>>}

MetricsInit ==
    \E table \in MetricsTables, cache \in {<<FALLBACK_RATE, None>>, <<71, 0>>} :
        Start(table, cache[1], cache[2])

\* the response of a call: what it returned, without the cache it left
Response(r) == [f \in DOMAIN r \ {"cache"} |-> r[f]]

\* the effect of a call on the row id (0: on the table) that returned r; `twin`
\* is what the same call returns on the same rows, cache and clock when every
\* source fails
Evaluated(op, id, r, twin) ==
    /\ evaluation' = [op |-> op, id |-> id,
                      before |-> <<usd_to_inr_rate, last_updated>>,
                      after |-> r.cache,
                      result |-> Response(r),
                      twin |-> Response(twin)]
    /\ usd_to_inr_rate' = r.cache[1]
    /\ last_updated' = r.cache[2]
    /\ cache_pair' = r.cache
    /\ last_good' = IF r.cache = <<usd_to_inr_rate, last_updated>>
                    THEN last_good ELSE r.cache[1]
    /\ UNCHANGED <<now, investments, running, task>>

\* calculate_metrics(investment) for the row id, as in get_investments
evaluate_calculate_metrics ==
    \E id \in DOMAIN investments, answers \in [1 .. 3 -> LookupAnswers] :
        Evaluated("calculate_metrics", id,
                  calculate_metrics(investments[id], <<usd_to_inr_rate, last_updated>>,
                                    now, answers),
                  calculate_metrics(investments[id], <<usd_to_inr_rate, last_updated>>,
                                    now, [n \in 1 .. 3 |-> NoAnswer]))

\* the lookups get_portfolio_stats can make on a table: one at line 813, and
\* one per conversion of lines 818 and 823, numbered up to those of the last
\* USD row (the conversion of an INR amount makes none)
Lookups(table) ==
    LET usd == {0} \cup {i \in DOMAIN table : Upper(table[i].currency) = "USD"}
    IN  1 + 2 * (CHOOSE i \in usd : \A j \in usd : j <= i)

\* GET /api/portfolio/stats
evaluate_get_portfolio_stats ==
    \E answers \in [1 .. Lookups(investments) -> LookupAnswers] :
        Evaluated("get_portfolio_stats", 0,
                  portfolio_stats(investments, <<usd_to_inr_rate, last_updated>>,
                                  now, answers),
                  portfolio_stats(investments, <<usd_to_inr_rate, last_updated>>,
                                  now, [n \in 1 .. Lookups(investments) |-> NoAnswer]))

MetricsNext ==
    \/ Tick(MaxTime)
    \/ evaluate_calculate_metrics
    \/ evaluate_get_portfolio_stats

MetricsSpec == MetricsInit /\ [][MetricsNext]_vars

-----------------------------------------------------------------------------
(* The valuation of rows with a not-a-number input: the same handlers on     *)
(* tables in which a row has NaN for its units, its average buy price or its  *)
(* current price, alone or beside a row with valid numbers.                   *)

InvalidRows ==
    {Row("Stock", "AAPL", x[1], x[2], c, x[3], "High") :
        x \in {<<NaN, 100, 120>>, <<2, NaN, 120>>, <<2, 100, NaN>>},
        c \in {"USD", "INR"}}

ValidRows ==
    {Row("Stock", "TCS.NS", 2, 100, "INR", 120, "Medium"),
     Row("Crypto", "BTC-USD", 10, 100, "USD", 120, "Low")}

InvalidTables ==
    {<<r>> : r \in InvalidRows}
        \cup {<<r, g>> : r \in InvalidRows, g \in ValidRows}
        \cup {<<g, r>> : r \in InvalidRows, g \in ValidRows}

InvalidInit ==
    \E table \in InvalidTables, cache \in {<<FALLBACK_RATE, None>>, <<71, 0>>} :
        Start(table, cache[1], cache[2])

InvalidSpec == InvalidInit /\ [][MetricsNext]_vars

-----------------------------------------------------------------------------
(* Properties of the price refresh (PriceSpec) *)

\* the tasks inside a run of update_all_prices
InRun(t) == Pc(t) \in {"upd_check", "upd_fetch", "upd_store"}

\* C2: in every run of update_all_prices, a row whose fetch failed (0.0) keeps
\* the current_price and the last_price_update it had before the run: its price
\* is not set to 0 and it stays stale, so the next run fetches it again.
C2_FailedFetchKeepsPrice ==
    \A t \in Tasks : InRun(t) =>
        \A id \in task[t].failed \cap DOMAIN investments :
            /\ investments[id].current_price = task[t].before[id].current_price
            /\ investments[id].last_price_update = task[t].before[id].last_price_update
            /\ now - investments[id].last_price_update > 900

\* C2, its case: a run ends in which the fetch failed for a row with a known price
C2_Witness ==
    \E t \in Tasks :
        /\ Pc(t) = "upd_check" /\ task[t].queue = <<>>
        /\ \E id \in task[t].failed : task[t].before[id].current_price > 0

\* the tasks that are executing update_all_prices (lines 531-566)
Refreshing == {t \in Tasks : Pc(t) \in {"upd_query", "upd_check", "upd_fetch", "upd_store"}}

\* C14: at no moment are two executions of update_all_prices in progress,
\* whether started by the background loop or by POST /api/refresh-prices; while
\* one is in progress its task holds the event loop, and the background loop
\* is in its sleep only between two of its cycles.
C14_CyclesNeverOverlap ==
    /\ Cardinality(Refreshing) <= 1
    /\ \A t \in Refreshing : running = t
    /\ Pc("price_update_loop") = "sleeping" => "price_update_loop" \notin Refreshing

\* C14, its case: a manual refresh is storing a price between two cycles of the
\* background loop, which has finished one cycle and is in its 900 s sleep
C14_Witness ==
    /\ Pc("request_1") = "upd_store"
    /\ task["request_1"].op = "refresh_prices"
    /\ Pc("price_update_loop") = "sleeping"
    /\ now < task["price_update_loop"].wake

\* a run of update_all_prices is over: the loop of line 536 has no row left
RunEnds(t) == Pc(t) = "upd_check" /\ task[t].queue = <<>>

\* the rows of a run that were stale when the run read the table
StaleAtStart(t) ==
    {id \in DOMAIN task[t].before :
        task[t].started - task[t].before[id].last_price_update > 900}

\* C15: a failed fetch does not end the run: when a run of update_all_prices
\* ends, a fetch has been attempted for every row that was stale at its start,
\* and every row whose fetch succeeded has a price above 0 and a
\* last_price_update set during the run, whatever happened to the other rows.
C15_FailureDoesNotAbortBatch ==
    \A t \in Tasks : RunEnds(t) =>
        /\ StaleAtStart(t) \subseteq task[t].fetched
        /\ \A id \in task[t].fetched \ task[t].failed :
              /\ id \in DOMAIN investments
              /\ investments[id].current_price > 0
              /\ investments[id].last_price_update >= task[t].started
              /\ investments[id].last_price_update > task[t].before[id].last_price_update

\* C15, its case: a run ends in which the fetch failed for the first row and
\* succeeded for the row after it
C15_Witness ==
    \E t \in Tasks :
        /\ RunEnds(t)
        /\ \E i \in task[t].failed, j \in task[t].fetched \ task[t].failed : i < j

\* the rows for which the run of t has attempted a fetch, or is about to
Attempted(t) ==
    task[t].fetched \cup (IF Pc(t) = "upd_fetch" THEN {Head(task[t].queue)} ELSE {})

\* C19: a run of update_all_prices attempts a fetch for exactly the rows whose
\* last_price_update was more than 900 s before the time of their check (line
\* 538); a row checked 900 s or less after its last_price_update gets no
\* fetch and keeps its current_price, last_price_update and currency.
C19_OnlyStaleRowsAreFetched ==
    \A t \in Refreshing :
        /\ \A id \in Attempted(t) : \E c \in task[t].checked : c[1] = id
        /\ \A c \in task[t].checked :
              LET id == c[1]
                  age == c[2] - task[t].before[id].last_price_update
              IN  /\ id \in Attempted(t) <=> age > 900
                  /\ age <= 900 =>
                        /\ id \in DOMAIN investments
                        /\ investments[id].current_price = task[t].before[id].current_price
                        /\ investments[id].last_price_update
                               = task[t].before[id].last_price_update
                        /\ investments[id].currency = task[t].before[id].currency

\* C19, its case: a run ends that fetched one row and passed over another,
\* which was checked exactly 900 s after its last_price_update
C19_Witness ==
    \E t \in Tasks :
        /\ RunEnds(t)
        /\ task[t].fetched # {}
        /\ \E c \in task[t].checked :
              /\ c[1] \notin task[t].fetched
              /\ c[2] - task[t].before[c[1]].last_price_update = 900

\* the rows whose last_price_update a step sets: new rows, and rows whose
\* last_price_update it changes
TimeWritten ==
    {id \in DOMAIN investments' :
        id \notin DOMAIN investments
          \/ investments'[id].last_price_update # investments[id].last_price_update}

\* C20 as claimed: last_price_update is the time of the last successful fetch:
\* every step that sets or advances the last_price_update of a row stores with
\* it the price of a fetch that succeeded (price > 0); no step does so after a
\* fetch that failed with 0.0.
C20_AsClaimed ==
    [][\A id \in TimeWritten : investments'[id].current_price > 0]_vars

-----------------------------------------------------------------------------
(* Properties of the background loop (LoopSpec) *)

\* a background cycle ends, the rows its predecessor skipped being on record
CycleEnds == RunEnds("price_update_loop") /\ evaluation.op = "price_update_loop"

\* the row that the cycle before skipped (s = <<id, last_price_update, time of
\* the check>>) is in the table of the cycle that ends, with the same
\* last_price_update
StillUnrefreshed(s) ==
    /\ s[1] \in DOMAIN task["price_update_loop"].before
    /\ task["price_update_loop"].before[s[1]].last_price_update = s[2]

BeyondHorizon ==
    Pc("price_update_loop") = "sleeping" /\ task["price_update_loop"].wake > PriceHorizon

\* the row id is stored, its price is older than 900 s, and no run of
\* update_all_prices in progress has attempted or is attempting its fetch
LeftStale(id) ==
    /\ id \in DOMAIN investments
    /\ now - investments[id].last_price_update > 900
    /\ \A t \in PriceTasks : id \notin Attempted(t)

-----------------------------------------------------------------------------
(* Properties of the rate cache (RateSpec) *)

\* a lookup that is about to return (line 85)
Returning(t) == Pc(t) = "rate_return"

\* a source's answer that passes for a rate: strictly between 70 and 100
GoodRate(r) == r > 70 /\ r < 100

\* C3: after a successful fetch at time t (the cached timestamp), a lookup made
\* before t + 3600 calls no source and returns the rate that fetch stored.
C3_FreshCacheIsReused ==
    \A t \in Tasks :
        (Returning(t) /\ task[t].ts0 # None /\ task[t].t_now < task[t].ts0 + 3600) =>
            /\ task[t].called = <<>>
            /\ usd_to_inr_rate = task[t].rate0
            /\ usd_to_inr_rate = last_good
            /\ last_updated = task[t].ts0

\* C3, its case: a lookup some time after the fetch, inside the hour
C3_Witness ==
    \E t \in Tasks :
        /\ Returning(t) /\ task[t].ts0 # None
        /\ task[t].ts0 < task[t].t_now /\ task[t].t_now < task[t].ts0 + 3600

\* every source called by the lookup of t failed: no answer, an exception, or
\* an answer outside the sanity range
AllSourcesFailed(t) ==
    /\ task[t].results # <<>>
    /\ \A i \in 1 .. Len(task[t].results) : ~GoodRate(task[t].results[i])

\* C4: a lookup that tries to refresh and finds every source failing has tried
\* all three, leaves the cache alone and returns the last fetched rate, or 83 if
\* no fetch ever succeeded; an exception of a source does not reach the caller.
C4_AllSourcesFailKeepsLastRate ==
    \A t \in Tasks :
        (Returning(t) /\ AllSourcesFailed(t)) =>
            /\ Len(task[t].results) = 3
            /\ usd_to_inr_rate = task[t].rate0
            /\ last_updated = task[t].ts0
            /\ task[t].ts0 = None => usd_to_inr_rate = 83
            /\ task[t].ts0 # None => usd_to_inr_rate = last_good

\* C4, its case: every source fails, one by an exception, after an earlier success
C4_Witness ==
    \E t \in Tasks :
        /\ Returning(t) /\ AllSourcesFailed(t)
        /\ task[t].ts0 # None
        /\ \E i \in 1 .. Len(task[t].results) : task[t].results[i] = Raise

\* C8: a lookup that tries to refresh calls the sources in the order Yahoo,
\* exchangerate-api, Fixer, skips every answer that is not strictly between 70
\* and 100, stores and returns the first that is, and calls no source after it.
C8_FirstSaneSourceWins ==
    \A t \in Tasks :
        (Returning(t) /\ task[t].results # <<>>) =>
            LET k == Len(task[t].results)
            IN  /\ task[t].called = SubSeq(<<"_get_rate_from_yahoo",
                                             "_get_rate_from_exchange_api",
                                             "_get_rate_from_fixer">>, 1, k)
                /\ \A i \in 1 .. k - 1 : ~GoodRate(task[t].results[i])
                /\ IF GoodRate(task[t].results[k])
                   THEN /\ usd_to_inr_rate = task[t].results[k]
                        /\ last_updated = task[t].t_now
                   ELSE /\ k = 3
                        /\ usd_to_inr_rate = task[t].rate0

\* C8, its case: Yahoo answers exactly 70, the next source raises, Fixer is accepted
C8_Witness ==
    \E t \in Tasks :
        /\ Returning(t)
        /\ Len(task[t].results) = 3
        /\ task[t].results[1] = 70 /\ task[t].results[2] = Raise
        /\ GoodRate(task[t].results[3])

\* C9 as claimed: the cached rate is returned without a call to any source
\* exactly when the cache is younger than 3600 s.
C9_AsClaimed ==
    \A t \in Tasks :
        Returning(t) =>
            (task[t].called = <<>>
                <=> (task[t].ts0 # None /\ task[t].t_now - task[t].ts0 < 3600))

\* C9 as amended: the cached rate is returned without a call to any source
\* exactly when a fetch has succeeded and the cache is at most 3600 s old (3600 s
\* included); with no fetch yet, or an age above 3600 s, the sources are tried.
C9_CachedUpToTtl ==
    \A t \in Tasks :
        Returning(t) =>
            /\ task[t].called = <<>>
                  <=> (task[t].ts0 # None /\ task[t].t_now - task[t].ts0 <= 3600)
            /\ task[t].called = <<>> =>
                  usd_to_inr_rate = task[t].rate0 /\ last_updated = task[t].ts0

\* C9, its case: a lookup when the cache is exactly 3600 s old
C9_Witness ==
    \E t \in Tasks :
        /\ Returning(t) /\ task[t].ts0 # None
        /\ task[t].t_now - task[t].ts0 = 3600

\* a task that may read the cache in this state: it reads the timestamp at
\* line 61 or the rate at line 85, and the event loop lets it run
Reads(t) == Pc(t) \in {"rate_check", "rate_return"} /\ EventLoopTurn(t)

\* C10: whenever a task can read the cache, or a new handler can start, the
\* pair (rate, timestamp) is a pair that a refresh completed (or the initial
\* one): the state between lines 74 and 75 is seen by no reader.
C10_NoTornPair ==
    (EventLoopTurn(NoTask) \/ \E t \in Tasks : Reads(t)) =>
        <<usd_to_inr_rate, last_updated>> = cache_pair

\* C10, its case: a refresh is between lines 74 and 75, with a new rate beside
\* the old timestamp
C10_Witness ==
    \E t \in Tasks :
        /\ Pc(t) = "rate_stamp"
        /\ usd_to_inr_rate # cache_pair[1]
        /\ last_updated = cache_pair[2]

\* C23: the cached exchange rate is at every moment strictly between 70 and
\* 100 (the initial 83 included), whatever the sources answer, so every lookup
\* returns a rate in that range.
C23_CachedRateInRange ==
    /\ usd_to_inr_rate > RATE_MIN /\ usd_to_inr_rate < RATE_MAX
    /\ \A t \in Tasks :
          Returning(t) => (usd_to_inr_rate > 70 /\ usd_to_inr_rate < 100)

\* C23, its case: a lookup returns a rate it stored after the sources before
\* answered the bounds 100 and 70 themselves
C23_Witness ==
    \E t \in Tasks :
        /\ Returning(t)
        /\ task[t].results = <<100, 70, 99>>
        /\ usd_to_inr_rate = 99

\* the cache as the lookup of t found it was expired: never fetched, or
\* fetched more than 3600 s before
ExpiredAtStart(t) == task[t].ts0 = None \/ task[t].t_now - task[t].ts0 > 3600

\* C26: a lookup whose refresh finds every source failing leaves the rate and
\* the timestamp as they were, so the cache is still expired when it returns;
\* every lookup that finds the cache expired calls the sources again, however
\* many lookups before it have failed (there is no negative caching); a lookup
\* whose refresh succeeds stamps the cache with its own time, and a lookup up to
\* 3600 s after that stamp calls no source.
C26_NoNegativeCaching ==
    \A t \in Tasks : Returning(t) =>
        /\ AllSourcesFailed(t) =>
              /\ usd_to_inr_rate = task[t].rate0
              /\ last_updated = task[t].ts0
              /\ last_updated = None \/ task[t].t_now - last_updated > 3600
        /\ ExpiredAtStart(t) => task[t].called # <<>>
        /\ task[t].failures > 0 => task[t].called # <<>>
        /\ (task[t].called # <<>> /\ ~AllSourcesFailed(t)) =>
              last_updated = task[t].t_now
        /\ ~ExpiredAtStart(t) =>
              /\ task[t].called = <<>>
              /\ usd_to_inr_rate = task[t].rate0 /\ last_updated = task[t].ts0

\* C26, its case: after two lookups in which every source failed, the third
\* lookup of a handler, some time after a fetch expired, tries the sources
\* again and this time one succeeds
C26_Witness ==
    \E t \in Tasks :
        /\ Returning(t)
        /\ task[t].failures = 2
        /\ task[t].ts0 # None
        /\ task[t].called # <<>> /\ ~AllSourcesFailed(t)
        /\ last_updated = task[t].t_now

-----------------------------------------------------------------------------
(* Properties of the valuation (MetricsSpec) *)

\* the last call was calculate_metrics on the row h
MetricsOf(h) ==
    /\ evaluation.op = "calculate_metrics"
    /\ h = investments[evaluation.id]

\* the last call was get_portfolio_stats and it returned
StatsReturned == evaluation.op = "get_portfolio_stats" /\ evaluation.result.error = ""

\* a row bought in INR whose price is quoted in USD
BoughtInInrQuotedInUsd(h) ==
    Upper(h.currency) = "INR" /\ NativeCurrency(h.asset_type, h.ticker) = "USD"

\* C1 as claimed: for a holding bought in INR whose price is quoted in USD,
\* calculate_metrics leaves the invested side unconverted (units x
\* avg_buy_price) and multiplies only the current side by the exchange rate
\* (units x current_price x rate), and get_portfolio_stats does the same for a
\* portfolio of that one holding; at rate 83, units 2, buy 50000, price 700
\* give 100000, 116200, 16200 and 16.2 %.
C1_AsClaimed ==
    /\ \A h \in MetricsRows :
         (MetricsOf(h) /\ BoughtInInrQuotedInUsd(h)) =>
            LET rate == evaluation.after[1]
                r == evaluation.result
            IN  /\ r.total_invested_inr = h.units * h.avg_buy_price
                /\ r.total_value_inr = h.units * h.current_price * rate
                /\ r.unrealized_pnl_inr = r.total_value_inr - r.total_invested_inr
                /\ (rate = 83 /\ h.units = 2 /\ h.avg_buy_price = 50000
                        /\ h.current_price = 700) =>
                      /\ r.total_invested_inr = 100000
                      /\ r.total_value_inr = 116200
                      /\ r.unrealized_pnl_inr = 16200
                      /\ r.unrealized_pnl_percent = <<81, 5>>
    /\ (StatsReturned /\ Len(investments) = 1 /\ BoughtInInrQuotedInUsd(investments[1])) =>
            LET rate == evaluation.after[1]
                h == investments[1]
            IN  /\ evaluation.result.total_invested = h.units * h.avg_buy_price
                /\ evaluation.result.current_value = h.units * h.current_price * rate

\* C5: for a holding whose invested value is 0 (zero units or zero buy price),
\* calculate_metrics returns unrealized_pnl_percent exactly 0 and no division
\* error, whatever the current price and the rate; get_portfolio_stats returns
\* net_return_percent exactly 0 whenever the total invested is 0, the empty
\* portfolio included.
C5_ZeroInvestedZeroPercent ==
    /\ \A h \in MetricsRows \cup PortfolioRows :
         (MetricsOf(h) /\ (h.units = 0 \/ h.avg_buy_price = 0)) =>
            /\ evaluation.result.total_invested_inr = 0
            /\ evaluation.result.unrealized_pnl_percent = <<0, 1>>
    /\ evaluation.op = "calculate_metrics" =>
         /\ evaluation.result.unrealized_pnl_percent # ZeroDivisionError
         /\ evaluation.result.total_invested_inr = 0 =>
                evaluation.result.unrealized_pnl_percent = <<0, 1>>
    /\ evaluation.op = "get_portfolio_stats" =>
         /\ evaluation.result.net_return_percent # ZeroDivisionError
         /\ evaluation.result.total_invested = 0 =>
                evaluation.result.net_return_percent = <<0, 1>>
         /\ investments = <<>> =>
                /\ evaluation.result.error = ""
                /\ evaluation.result.total_invested = 0
                /\ evaluation.result.net_return_percent = <<0, 1>>

\* C5, its case: a holding with a zero buy price and a current value above 0,
\* valued at a rate fetched during the call
C5_Witness ==
    \E h \in MetricsRows :
        /\ MetricsOf(h)
        /\ h.units > 0 /\ h.avg_buy_price = 0
        /\ evaluation.result.total_value_inr > 0
        /\ evaluation.after # evaluation.before

\* C6 as claimed: for a holding bought and quoted in USD, with r the exchange
\* rate the call reports: total_invested_inr = units x avg_buy_price x r,
\* total_value_inr = units x current_price x r, unrealized_pnl_inr is their
\* difference and unrealized_pnl_percent = unrealized_pnl_inr /
\* total_invested_inr x 100 when total_invested_inr > 0; at r = 83, units 10,
\* buy 100, price 120 give 83000, 99600, 16600 and 20 %.
C6_AsClaimed ==
    \A h \in MetricsRows :
        (MetricsOf(h) /\ Upper(h.currency) = "USD"
                      /\ NativeCurrency(h.asset_type, h.ticker) = "USD") =>
            LET r == evaluation.result.usd_to_inr_rate
                res == evaluation.result
            IN  /\ res.total_invested_inr = h.units * h.avg_buy_price * r
                /\ res.total_value_inr = h.units * h.current_price * r
                /\ res.unrealized_pnl_inr = res.total_value_inr - res.total_invested_inr
                /\ res.total_invested_inr > 0 =>
                      res.unrealized_pnl_percent =
                          Times(Divide(res.unrealized_pnl_inr, res.total_invested_inr), 100)
                /\ (r = 83 /\ h.units = 10 /\ h.avg_buy_price = 100
                        /\ h.current_price = 120) =>
                      /\ res.total_invested_inr = 83000
                      /\ res.total_value_inr = 99600
                      /\ res.unrealized_pnl_inr = 16600
                      /\ res.unrealized_pnl_percent = <<20, 1>>

\* C7 as claimed: calculate_metrics is a pure function of the holding and the
\* exchange rate: the call returns what a second evaluation on the same holding
\* with the same cached rate returns (the twin, to which the sources answer
\* differently), and it leaves the exchange-rate cache as it found it.
C7_AsClaimed ==
    evaluation.op = "calculate_metrics" =>
        /\ evaluation.result = evaluation.twin
        /\ evaluation.after = evaluation.before

\* the rows of the table tagged exactly with a conviction level
Tagged(level) == {id \in DOMAIN investments : investments[id].conviction_level = level}

\* every row of the table has one of the three conviction levels
AllTiersKnown ==
    \A id \in DOMAIN investments :
        investments[id].conviction_level \in {"High", "Medium", "Low"}

\* C17: for a table whose conviction levels are all High, Medium or Low,
\* get_portfolio_stats returns, for each level, the number of rows tagged
\* exactly with it, and total_holdings is the sum of the three counts; rows
\* tagged High, High, Medium, Low, Low give 2, 1, 2 and a total of 5.
C17_TierCounts ==
    (evaluation.op = "get_portfolio_stats" /\ AllTiersKnown) =>
        LET r == evaluation.result
        IN  /\ r.error = ""
            /\ r.high_conviction_count = Cardinality(Tagged("High"))
            /\ r.medium_conviction_count = Cardinality(Tagged("Medium"))
            /\ r.low_conviction_count = Cardinality(Tagged("Low"))
            /\ r.total_holdings = r.high_conviction_count + r.medium_conviction_count
                                      + r.low_conviction_count
            /\ r.total_holdings = Len(investments)
            /\ investments = TieredTable =>
                  /\ r.high_conviction_count = 2
                  /\ r.medium_conviction_count = 1
                  /\ r.low_conviction_count = 2
                  /\ r.total_holdings = 5

\* C17, its case: the statistics of the five holdings High, High, Medium, Low, Low
C17_Witness ==
    /\ evaluation.op = "get_portfolio_stats"
    /\ investments = TieredTable
    /\ evaluation.result.total_holdings = 5

\* C18: if a row has a conviction level that is not exactly High, Medium or
\* Low, get_portfolio_stats ends in an error and returns no statistics.
C18_UnknownTierIsAnError ==
    (evaluation.op = "get_portfolio_stats" /\ ~AllTiersKnown) =>
        evaluation.result.error # ""

\* C18, its case: the statistics of a table in which a row tagged "high"
\* follows a row tagged High
C18_Witness ==
    /\ evaluation.op = "get_portfolio_stats"
    /\ Len(investments) = 2
    /\ investments[1].conviction_level = "High"
    /\ investments[2].conviction_level = "high"
    /\ evaluation.result.error = "KeyError"

\* calculate_metrics on the row id at the exchange rate the cache holds, the
\* cache being left as it is
MetricsAtCachedRate(id) ==
    calculate_metrics(investments[id], evaluation.before, now, [n \in 1 .. 3 |-> NoAnswer])

\* the sum of a field of calculate_metrics over the rows ids
RECURSIVE SumOfMetrics(_, _)
SumOfMetrics(ids, field) ==
    IF ids = {} THEN 0
    ELSE LET id == CHOOSE i \in ids : TRUE
         IN  MetricsAtCachedRate(id)[field] + SumOfMetrics(ids \ {id}, field)

\* C22: for every table and a given exchange rate (the cached rate, which the
\* call leaves as it is), get_portfolio_stats returns total_invested,
\* current_value and total_unrealized_pnl equal to the sums of
\* total_invested_inr, total_value_inr and unrealized_pnl_inr that
\* calculate_metrics returns for the rows at that rate.
C22_AggregateIsSumOfMetrics ==
    (StatsReturned /\ evaluation.after = evaluation.before) =>
        /\ evaluation.result.total_invested
               = SumOfMetrics(DOMAIN investments, "total_invested_inr")
        /\ evaluation.result.current_value
               = SumOfMetrics(DOMAIN investments, "total_value_inr")
        /\ evaluation.result.total_unrealized_pnl
               = SumOfMetrics(DOMAIN investments, "unrealized_pnl_inr")

\* C22, its case: the statistics of a USD holding and an INR holding, at the
\* cached rate
C22_Witness ==
    /\ StatsReturned /\ evaluation.after = evaluation.before
    /\ Len(investments) = 2
    /\ investments[1].currency = "USD" /\ investments[2].currency = "INR"
    /\ evaluation.result.total_invested
           = 10 * 100 * evaluation.before[1] + 2 * 50000
    /\ evaluation.result.total_unrealized_pnl # 0

\* C25 as claimed: in one call of calculate_metrics on a USD holding, the
\* invested value and the current value are converted by one and the same
\* exchange rate, the usd_to_inr_rate the result reports, also when the cache
\* is expired and the lookups of the call get different answers of the sources.
C25_AsClaimed ==
    \A id \in DOMAIN investments :
        (/\ evaluation.op = "calculate_metrics" /\ evaluation.id = id
         /\ investments[id].currency = "USD") =>
            LET h == investments[id]
                reported == evaluation.result.usd_to_inr_rate
            IN  /\ evaluation.result.total_value_inr
                       = h.units * h.current_price * reported
                /\ evaluation.result.total_invested_inr
                       = h.units * h.avg_buy_price * reported

-----------------------------------------------------------------------------
(* Properties of the valuation of invalid rows (InvalidSpec) *)

\* a row with a not-a-number input
InvalidInput(h) == NaN \in {h.units, h.avg_buy_price, h.current_price}

\* a value clamped to 0 when it is not a number
Clamp(x) == IF x = NaN THEN 0 ELSE x

\* the sum over the rows ids of a field of calculate_metrics, clamped
RECURSIVE SumOfClamped(_, _)
SumOfClamped(ids, field) ==
    IF ids = {} THEN 0
    ELSE LET id == CHOOSE i \in ids : TRUE
         IN  Clamp(MetricsAtCachedRate(id)[field]) + SumOfClamped(ids \ {id}, field)

\* C24 as claimed: for a holding with a not-a-number input, no value that
\* calculate_metrics returns is not-a-number (what would be is returned as 0),
\* and get_portfolio_stats on a table with such a holding returns totals that
\* are numbers, the holding's not-a-number values counting as 0.
C24_AsClaimed ==
    /\ \A id \in DOMAIN investments :
          (MetricsOf(investments[id]) /\ InvalidInput(investments[id])) =>
              /\ evaluation.result.total_value_inr # NaN
              /\ evaluation.result.total_invested_inr # NaN
              /\ evaluation.result.unrealized_pnl_inr # NaN
              /\ evaluation.result.unrealized_pnl_percent[1] # NaN
    /\ (/\ evaluation.op = "get_portfolio_stats"
        /\ \E id \in DOMAIN investments : InvalidInput(investments[id])) =>
              /\ evaluation.result.error = ""
              /\ evaluation.result.total_invested # NaN
              /\ evaluation.result.current_value # NaN
              /\ evaluation.result.total_unrealized_pnl # NaN
              /\ evaluation.result.net_return_percent[1] # NaN
              /\ evaluation.after = evaluation.before =>
                    /\ evaluation.result.total_invested
                           = SumOfClamped(DOMAIN investments, "total_invested_inr")
                    /\ evaluation.result.current_value
                           = SumOfClamped(DOMAIN investments, "total_value_inr")

-----------------------------------------------------------------------------
(* Properties of the writes (WriteSpec) *)

\* the currency a holding has by its ticker suffix and asset class alone
CurrencyRule(asset_type, ticker) ==
    IF ticker \in {"TCS.NS", "SENSEX.BO"} THEN "INR"
    ELSE IF asset_type \in {"Crypto", "crypto", "Stock", "stock"} THEN "USD"
    ELSE "INR"

\* the rows whose currency a step of a request stores: new rows, and rows
\* whose currency it changes
CurrencyWritten ==
    {id \in DOMAIN investments' :
        Serving /\ (id \notin DOMAIN investments
                      \/ investments'[id].currency # investments[id].currency)}

\* C11 as claimed: every currency that create_investment or update_investment
\* stores is USD or INR and is the one given by the ticker suffix and the asset
\* class of the holding; the currency of the request never decides it.
C11_AsClaimed ==
    [][\A id \in CurrencyWritten :
          /\ investments'[id].currency \in {"USD", "INR"}
          /\ investments'[id].currency =
                 CurrencyRule(investments'[id].asset_type, investments'[id].ticker)]_vars

\* a ticker of an Indian exchange
IndianSuffix(ticker) == ticker \in {"TCS.NS", "SENSEX.BO"}

\* the rows a step gives a currency: new rows, and rows that had none
CurrencyAssigned ==
    {id \in DOMAIN investments' :
        id \notin DOMAIN investments \/ investments[id].currency = ""}

\* C13 as claimed: for a ticker ending in .NS or .BO, whatever the asset class,
\* the currency given to the holding at creation and by migrate_existing_data
\* is INR, and the currency get_price_in_native_currency reports for it
\* (price_currency, line 705) is INR.
C13_AsClaimed ==
    [][/\ \A id \in CurrencyAssigned :
             IndianSuffix(investments'[id].ticker) => investments'[id].currency = "INR"
       /\ \A t \in Tasks :
             (task'[t].pc = "create_commit" /\ IndianSuffix(task'[t].row.ticker)) =>
                 task'[t].price_currency = "INR"]_vars

\* C16 as claimed: create_investment and update_investment refuse a conviction
\* level other than High, Medium or Low and negative units, so every stored
\* holding has a recognised conviction level and units of at least 0.
C16_AsClaimed ==
    \A id \in DOMAIN investments :
        /\ investments[id].conviction_level \in {"High", "Medium", "Low"}
        /\ investments[id].units >= 0

-----------------------------------------------------------------------------
(* Properties of the classification (ClassifySpec) *)

\* the last call was get_price_in_native_currency(asset_type, ticker)
Classified(asset_type, ticker) ==
    /\ evaluation.op = "get_price_in_native_currency"
    /\ investments[evaluation.id].asset_type = asset_type
    /\ investments[evaluation.id].ticker = ticker

\* C12: get_price_in_native_currency returns the currency given by these rules,
\* the first that applies: asset type Crypto -> USD; ticker ending .NS or .BO
\* -> INR; asset type Stock -> USD; every other asset type -> INR; whatever
\* the fetch returned (nothing, 0.0 or a price).
C12_NativeCurrencyByRule ==
    \A asset_type \in AssetTypes, ticker \in Tickers :
        Classified(asset_type, ticker) =>
            evaluation.result[2] =
                IF asset_type \in {"Crypto", "crypto"} THEN "USD"
                ELSE IF ticker \in {"TCS.NS", "SENSEX.BO"} THEN "INR"
                ELSE IF asset_type \in {"Stock", "stock"} THEN "USD"
                ELSE "INR"

\* C12, its case: the fetch fails for a crypto asset whose ticker has an
\* Indian suffix, where the first two rules both apply
C12_Witness ==
    /\ Classified("Crypto", "TCS.NS")
    /\ evaluation.answer = None
    /\ evaluation.result = <<0, "USD">>

-----------------------------------------------------------------------------
(* Properties of the price fetch (FetchSpec) *)

\* the numbers of the sources in the order claimed for an asset type
ClaimedOrder(asset_type) ==
    IF asset_type \in {"Crypto", "crypto"} THEN <<1, 2, 3, 4, 5>> ELSE <<2, 3, 4, 5>>

\* C21 as claimed: get_price_with_fallbacks calls the sources in order (for
\* Crypto: CoinGecko, Yahoo Simple, Yahoo Search, yfinance, Alpha Vantage; for
\* other asset types the last four), returns the price of the first that
\* answers a positive price and calls none after it; when every source fails
\* get_price_in_native_currency returns exactly (0.0, currency by rule); the
\* price is never negative and never None.
C21_AsClaimed ==
    evaluation.op = "get_price_with_fallbacks" =>
        LET row == investments[evaluation.id]
            order == ClaimedOrder(row.asset_type)
            answer(k) == evaluation.answers[order[k]]
            good == {k \in 1 .. Len(order) : answer(k) # None /\ answer(k) > 0}
            n == Len(evaluation.called)
        IN  /\ n <= Len(order)
            /\ \A k \in 1 .. n : evaluation.called[k] = PriceSources[order[k]]
            /\ evaluation.result[1] # None
            /\ evaluation.result[1] >= 0
            /\ IF good = {}
               THEN /\ n = Len(order)
                    /\ evaluation.result = <<0, NativeCurrency(row.asset_type, row.ticker)>>
               ELSE LET first == CHOOSE k \in good : \A j \in good : k <= j
                    IN  /\ n = first
                        /\ evaluation.result[1] = answer(first)

====
